---- MODULE Spec2Model ----
(***************************************************************************)
(* Model of lettuce's Simulation engine (src/lettuce/simulation.py): the   *)
(* constructor, step, initialize, save_checkpoint and load_checkpoint,     *)
(* driven by a caller such as src/lettuce/cli.py.                          *)
(*                                                                         *)
(* A distribution field f is a sequence over the Q velocity directions of  *)
(* sequences over the sites of a periodic 1D grid: f[q][x].  The lattice,  *)
(* streaming, collision, boundary and reporter objects are collaborators   *)
(* of the engine that live outside simulation.py; they are modelled by     *)
(* small deterministic operators on such fields.                           *)
(***************************************************************************)
EXTENDS Integers, Sequences, FiniteSets, TLC

\* ------------------------------------------------------------------ bounds
NumSites == 3
NumValues == 3
MaxI == 3
MaxCalls == 2
MaxInitSteps == 3

\* ----------------------------------------------------- lattice (D1Q3 stencil)
Q == 3
D == 1
e == <<0, 1, -1>>
opposite == <<1, 3, 2>>
RhoRef == 1

Sites == 1..NumSites
Dirs == 1..Q
grid_shape == <<NumSites>>

Wrap(x) == ((x - 1) % NumSites) + 1

\* arrays are held as tuples: a [Q] + grid_shape tensor, a grid_shape vector
vector(g) == g \o <<>>
tensor(g) == [q \in Dirs |-> g[q] \o <<>>] \o <<>>

\* torch.where(mask, a, b) with mask broadcast over the direction axis
where(mask, a, b) ==
    tensor([q \in Dirs |-> [x \in Sites |-> IF mask[x] THEN a[q][x] ELSE b[q][x]]])

\* lattice.rho(f): sum over the direction axis
rho(fld) == vector([x \in Sites |-> fld[1][x] + fld[2][x] + fld[3][x]])

\* lattice.rho(f).numel()
numel(r) == Len(r)

\* flow.units.convert_density_lu_to_pressure_pu
convert_density_lu_to_pressure_pu(r) == vector([x \in Sites |-> r[x] - RhoRef])

\* flow.units.convert_pressure_pu_to_density_lu
convert_pressure_pu_to_density_lu(p) == vector([x \in Sites |-> p[x] + RhoRef])

\* flow.units.convert_velocity_to_lu
convert_velocity_to_lu(u) == u

\* lattice.equilibrium(rho, u)
equilibrium(r, u) ==
    tensor([q \in Dirs |-> [x \in Sites |-> (r[x] + e[q] * u[x]) % NumValues]])

\* StandardStreaming.__call__: shift direction q by its velocity e[q]
streaming(fld) == tensor([q \in Dirs |-> [x \in Sites |-> fld[q][Wrap(x - e[q])]]])

\* BGKCollision.__call__: a site-local map without fixed points
collision(fld) ==
    tensor([q \in Dirs |-> [x \in Sites |-> (fld[q][x] + 1) % NumValues]])

\* BGKInitialization.__call__: a site-local relaxation towards 0
BGKInitialization(fld) ==
    tensor([q \in Dirs |-> [x \in Sites |-> IF fld[q][x] > 0 THEN fld[q][x] - 1 ELSE 0]])

\* torch.max(torch.abs(p - p_old))
Abs(a) == IF a < 0 THEN -a ELSE a
RECURSIVE SeqMax(_)
SeqMax(s) == IF Len(s) = 1 THEN s[1]
             ELSE LET m == SeqMax(Tail(s)) IN IF s[1] > m THEN s[1] ELSE m
max_abs_diff(p, p_old) == SeqMax(vector([x \in Sites |-> Abs(p[x] - p_old[x])]))

\* ------------------------------------------------------------ boundaries
MaskOf(S) == vector([x \in Sites |-> x \in S])
NoMask == vector([x \in Sites |-> FALSE])
BB(S) == [cls |-> "BounceBackBoundary", mask |-> MaskOf(S)]
EQ(S) == [cls |-> "EquilibriumBoundaryPU", mask |-> MaskOf(S)]

\* boundary.__call__(f)
boundary_call(b, fld) ==
    IF b.cls = "BounceBackBoundary"
    THEN where(b.mask, [q \in Dirs |-> fld[opposite[q]]], fld)
    ELSE where(b.mask, [q \in Dirs |-> [x \in Sites |-> q - 1]], fld)

\* ------------------------------------------------------------------ flows
\* Flow objects a caller may hand to the constructor: the boundary list,
\* the initial solution and the shapes of the arrays initial_solution returns.
BoundaryLists ==
    { <<>>,
      <<BB({1})>>,
      <<EQ({2})>>,
      <<BB({1}), EQ({1, 2})>>,
      <<EQ({1, 2}), BB({1})>>,
      <<BB({1}), BB({3})>> }

InitialSolutions ==
    { [p |-> [x \in Sites |-> 0], u |-> [x \in Sites |-> IF x = 1 THEN 1 ELSE 0]],
      [p |-> [x \in Sites |-> IF x = 2 THEN 1 ELSE 0], u |-> [x \in Sites |-> 1]] }

GoodShapes == [p_shape |-> <<1>> \o grid_shape, u_shape |-> <<D>> \o grid_shape]
BadShapes ==
    { [p_shape |-> grid_shape, u_shape |-> <<D>> \o grid_shape],
      [p_shape |-> <<2>> \o grid_shape, u_shape |-> <<D>> \o grid_shape],
      [p_shape |-> <<1>> \o grid_shape, u_shape |-> <<D + 1>> \o grid_shape] }

MkFlow(bl, sol, sh) ==
    [boundaries |-> bl, p |-> sol.p, u |-> sol.u,
     p_shape |-> sh.p_shape, u_shape |-> sh.u_shape]

FlowSet ==
    { MkFlow(bl, sol, GoodShapes) : bl \in BoundaryLists, sol \in InitialSolutions }
    \cup { MkFlow(<<BB({1})>>, sol, sh) : sol \in InitialSolutions, sh \in BadShapes }

NoFlow == [boundaries |-> <<>>, p |-> <<>>, u |-> <<>>, p_shape |-> <<>>, u_shape |-> <<>>]
ReporterIds == {"r1", "r2"}
Tols == {0, 1, 2}
Elapsed == {0, 2}
Mega == 1000000
Paths == {"a"}

\* ------------------------------------------------------------------ state
VARIABLES
    bound,              \* the caller holds a constructed Simulation
    flow,               \* self.flow
    i,                  \* self.i
    f,                  \* self.f
    reporters,          \* self.reporters
    no_collision_mask,  \* self.no_collision_mask
    files,              \* the file system: path -> pickled bytes
    reporter_out,       \* per reporter: the (i, i) pairs it was called with
    err,                \* exception raised by the last call, or "none"
    trace,              \* calls the last step/initialize made, in order
    last,               \* the last call with the engine state before it
    run,                \* the current run of consecutive step calls
    requested,          \* number of step iterations asked for and begun on this engine
    appended_at,        \* per reporter: the counter when it was appended
    ctor_boundaries,    \* flow.boundaries as the constructor saw them
    saved,              \* per path: the field and counter of the engine that saved last
    ncalls              \* number of calls made so far

vars == <<bound, flow, i, f, reporters, no_collision_mask, files,
          reporter_out, err, trace, last, run, requested, appended_at,
          ctor_boundaries, saved, ncalls>>

NoFile == [shape |-> <<>>, data |-> <<>>]
NoField == <<>>

Ev(kind, i1, i2, k, fin, fout) ==
    [kind |-> kind, i1 |-> i1, i2 |-> i2, k |-> k, fin |-> fin, fout |-> fout]

\* ------------------------------------------------------------ constructor
\* faulty variant of build_mask: the class of the boundary is not looked at
RECURSIVE build_mask_any_class(_, _)
build_mask_any_class(bnds, acc) ==
    IF bnds = <<>> THEN acc
    ELSE build_mask_any_class(Tail(bnds),
                              vector([x \in Sites |-> Head(bnds).mask[x] \/ acc[x]]))

\* the mask loop of __init__
RECURSIVE build_mask(_, _)
build_mask(bnds, acc) ==
    IF bnds = <<>> THEN acc
    ELSE build_mask(Tail(bnds),
                    IF Head(bnds).cls = "BounceBackBoundary"
                    THEN vector([x \in Sites |-> Head(bnds).mask[x] \/ acc[x]])
                    ELSE acc)

\* the two shape assertions of __init__: the exception the statement raises
shape_check(fl) ==
    IF fl.p_shape # <<1>> \o grid_shape THEN "AssertionError"
    ELSE IF fl.u_shape # <<D>> \o grid_shape THEN "AssertionError"
    ELSE "none"

initial_field(fl) ==
    equilibrium(convert_pressure_pu_to_density_lu(fl.p), convert_velocity_to_lu(fl.u))

\* ------------------------------------------------------------------- step
\* An engine state threaded through the loops: the counter, the field, the
\* reporters' records and the calls made so far.
St(ci, cf, cout, ctr) == [i |-> ci, f |-> cf, out |-> cout, trace |-> ctr]

\* faulty variant of apply_boundaries: only bounce-back boundaries are applied
RECURSIVE apply_boundaries_bounce_back_only(_, _, _)
apply_boundaries_bounce_back_only(st, bnds, k) ==
    IF k > Len(bnds) THEN st
    ELSE IF bnds[k].cls # "BounceBackBoundary"
         THEN apply_boundaries_bounce_back_only(st, bnds, k + 1)
         ELSE LET g == boundary_call(bnds[k], st.f)
              IN apply_boundaries_bounce_back_only(
                     St(st.i, g, st.out,
                        Append(st.trace, Ev("boundary", st.i, st.i, k, st.f, g))),
                     bnds, k + 1)

\* for boundary in self.flow.boundaries: self.f = boundary(self.f)
RECURSIVE apply_boundaries(_, _, _)
apply_boundaries(st, bnds, k) ==
    IF k > Len(bnds) THEN st
    ELSE LET g == boundary_call(bnds[k], st.f)
         IN apply_boundaries(
                St(st.i, g, st.out, Append(st.trace, Ev("boundary", st.i, st.i, k, st.f, g))),
                bnds, k + 1)

\* faulty variant of call_reporters: the list is walked from its end
RECURSIVE call_reporters_reversed(_, _, _)
call_reporters_reversed(st, reps, k) ==
    IF k > Len(reps) THEN st
    ELSE call_reporters_reversed(
             St(st.i, st.f,
                [st.out EXCEPT ![reps[Len(reps) + 1 - k]] = Append(@, <<st.i, st.i>>)],
                Append(st.trace, Ev("report", st.i, st.i, Len(reps) + 1 - k, st.f, st.f))),
             reps, k + 1)

\* for reporter in self.reporters: reporter(self.i, self.i, self.f)
RECURSIVE call_reporters(_, _, _)
call_reporters(st, reps, k) ==
    IF k > Len(reps) THEN st
    ELSE call_reporters(
             St(st.i, st.f,
                [st.out EXCEPT ![reps[k]] = Append(@, <<st.i, st.i>>)],
                Append(st.trace, Ev("report", st.i, st.i, k, st.f, st.f))),
             reps, k + 1)

\* faulty variant of step_iteration: the counter is incremented at the end
step_iteration_incr_last(st, mask, bnds, reps) ==
    LET s  == streaming(st.f)
        c  == collision(s)
        w  == where(mask, s, c)
        t1 == st.trace \o << Ev("stream", st.i, st.i, 0, st.f, s),
                             Ev("collide", st.i, st.i, 0, s, c),
                             Ev("where", st.i, st.i, 0, s, w) >>
        st2 == call_reporters(apply_boundaries(St(st.i, w, st.out, t1), bnds, 1), reps, 1)
    IN St(st.i + 1, st2.f, st2.out,
          Append(st2.trace, Ev("incr", st.i + 1, st.i + 1, 0, st2.f, st2.f)))

\* faulty variant of step_iteration: the two fields of the select are swapped
step_iteration_select_swapped(st, mask, bnds, reps) ==
    LET i1 == st.i + 1
        s  == streaming(st.f)
        c  == collision(s)
        w  == where(mask, c, s)
        t1 == st.trace \o << Ev("incr", i1, i1, 0, st.f, st.f),
                             Ev("stream", i1, i1, 0, st.f, s),
                             Ev("collide", i1, i1, 0, s, c),
                             Ev("where", i1, i1, 0, s, w) >>
    IN call_reporters(apply_boundaries(St(i1, w, st.out, t1), bnds, 1), reps, 1)

\* faulty variant of step_iteration: collision is given the field before streaming
step_iteration_collide_unstreamed(st, mask, bnds, reps) ==
    LET i1 == st.i + 1
        s  == streaming(st.f)
        c  == collision(st.f)
        w  == where(mask, s, c)
        t1 == st.trace \o << Ev("incr", i1, i1, 0, st.f, st.f),
                             Ev("stream", i1, i1, 0, st.f, s),
                             Ev("collide", i1, i1, 0, st.f, c),
                             Ev("where", i1, i1, 0, s, w) >>
    IN call_reporters(apply_boundaries(St(i1, w, st.out, t1), bnds, 1), reps, 1)

\* one iteration of the loop of step
step_iteration(st, mask, bnds, reps) ==
    LET i1 == st.i + 1
        s  == streaming(st.f)
        c  == collision(s)
        w  == where(mask, s, c)
        t1 == st.trace \o << Ev("incr", i1, i1, 0, st.f, st.f),
                             Ev("stream", i1, i1, 0, st.f, s),
                             Ev("collide", i1, i1, 0, s, c),
                             Ev("where", i1, i1, 0, s, w) >>
    IN call_reporters(apply_boundaries(St(i1, w, st.out, t1), bnds, 1), reps, 1)

\* faulty variant of step_loop: the counter restarts at 0 in every call
RECURSIVE step_loop_rest(_, _, _, _, _)
step_loop_rest(st, num_steps, mask, bnds, reps) ==
    IF num_steps <= 0 THEN st
    ELSE step_loop_rest(step_iteration(st, mask, bnds, reps), num_steps - 1, mask, bnds, reps)
step_loop_counter_restarts(st, num_steps, mask, bnds, reps) ==
    IF num_steps <= 0 THEN st
    ELSE step_loop_rest(St(0, st.f, st.out, st.trace), num_steps, mask, bnds, reps)

\* faulty variant of step_loop: the body runs once before num_steps is tested
step_loop_at_least_once(st, num_steps, mask, bnds, reps) ==
    step_loop_rest(step_iteration(st, mask, bnds, reps), num_steps - 1, mask, bnds, reps)

\* for _ in range(num_steps): ...
RECURSIVE step_loop(_, _, _, _, _)
step_loop(st, num_steps, mask, bnds, reps) ==
    IF num_steps <= 0 THEN st
    ELSE step_loop(step_iteration(st, mask, bnds, reps), num_steps - 1, mask, bnds, reps)

\* the iteration of step in which a collaborator raises: streaming, collision,
\* the k-th boundary or the k-th reporter; the statements before the raising
\* call have run, the assignment of its result and all later ones have not
PartialTrace(st) == Append(st.trace, Ev("incr", st.i + 1, st.i + 1, 0, st.f, st.f))
Raise(st, k) ==
    St(st.i, st.f, st.out, Append(st.trace, Ev("raise", st.i, st.i, k, st.f, st.f)))

\* faulty variant of step_partial: the field of the start of the iteration is restored
step_partial_rolled_back(st, mask, bnds, reps, phase, k) ==
    St(st.i + 1, st.f, st.out,
       PartialTrace(st) \o << Ev("raise", st.i + 1, st.i + 1, k, st.f, st.f) >>)

step_partial(st, mask, bnds, reps, phase, k) ==
    LET i1 == st.i + 1
        s  == streaming(st.f)
        c  == collision(s)
        w  == where(mask, s, c)
        t1 == PartialTrace(st)
        t2 == Append(t1, Ev("stream", i1, i1, 0, st.f, s))
        t4 == t2 \o << Ev("collide", i1, i1, 0, s, c), Ev("where", i1, i1, 0, s, w) >>
    IN CASE phase = "stream"   -> Raise(St(i1, st.f, st.out, t1), 0)
         [] phase = "collide"  -> Raise(St(i1, s, st.out, t2), 0)
         [] phase = "boundary" ->
               Raise(apply_boundaries(St(i1, w, st.out, t4), SubSeq(bnds, 1, k - 1), 1), k)
         [] phase = "report"   ->
               Raise(call_reporters(apply_boundaries(St(i1, w, st.out, t4), bnds, 1),
                                    SubSeq(reps, 1, k - 1), 1), k)

\* ------------------------------------------------------------- initialize
\* faulty variant of init_loop: the criterion is tested with <= instead of <
RECURSIVE init_loop_le(_, _, _, _, _)
init_loop_le(st, j, max_num_steps, tol_pressure, p_old) ==
    LET s  == streaming(st.f)
        c  == BGKInitialization(s)
        p  == convert_density_lu_to_pressure_pu(rho(c))
        t1 == st.trace \o << Ev("init_stream", j, j, 0, st.f, s),
                             Ev("init_collide", j, j, 0, s, c) >>
        st1 == St(st.i, c, st.out, t1)
    IN IF max_abs_diff(p, p_old) <= tol_pressure THEN [st |-> st1, ret |-> j]
       ELSE IF j + 1 >= max_num_steps THEN [st |-> st1, ret |-> j]
       ELSE init_loop_le(st1, j + 1, max_num_steps, tol_pressure, p)

\* the loop of initialize from iteration j on; ret is the value of the loop
\* variable when the loop ends
\* faulty variant of init_loop: the initialization collision spares the sites of
\* the no-collision mask
RECURSIVE init_loop_masked(_, _, _, _, _)
init_loop_masked(st, j, max_num_steps, tol_pressure, p_old) ==
    LET s  == streaming(st.f)
        c  == where(no_collision_mask, s, BGKInitialization(s))
        p  == convert_density_lu_to_pressure_pu(rho(c))
        t1 == st.trace \o << Ev("init_stream", j, j, 0, st.f, s),
                             Ev("init_collide", j, j, 0, s, c) >>
        st1 == St(st.i, c, st.out, t1)
    IN IF max_abs_diff(p, p_old) < tol_pressure THEN [st |-> st1, ret |-> j]
       ELSE IF j + 1 >= max_num_steps THEN [st |-> st1, ret |-> j]
       ELSE init_loop_masked(st1, j + 1, max_num_steps, tol_pressure, p)

RECURSIVE init_loop(_, _, _, _, _)
init_loop(st, j, max_num_steps, tol_pressure, p_old) ==
    LET s  == streaming(st.f)
        c  == BGKInitialization(s)
        p  == convert_density_lu_to_pressure_pu(rho(c))
        t1 == st.trace \o << Ev("init_stream", j, j, 0, st.f, s),
                             Ev("init_collide", j, j, 0, s, c) >>
        st1 == St(st.i, c, st.out, t1)
    IN IF max_abs_diff(p, p_old) < tol_pressure THEN [st |-> st1, ret |-> j]
       ELSE IF j + 1 >= max_num_steps THEN [st |-> st1, ret |-> j]
       ELSE init_loop(st1, j + 1, max_num_steps, tol_pressure, p)

\* faulty variant of initialize_call: an empty loop returns a defaulted count
initialize_call_defaulted(st, max_num_steps, tol_pressure) ==
    IF max_num_steps <= 0
    THEN [st |-> st, ret |-> 0, err |-> "none"]
    ELSE LET r == init_loop(st, 0, max_num_steps, tol_pressure, [x \in Sites |-> 0])
         IN [st |-> r.st, ret |-> r.ret, err |-> "none"]

\* faulty variant of initialize_call: the first iteration compares against the
\* pressure of the field before the call
initialize_call_p_old_initial(st, max_num_steps, tol_pressure) ==
    IF max_num_steps <= 0
    THEN [st |-> st, ret |-> 0, err |-> "UnboundLocalError"]
    ELSE LET r == init_loop(st, 0, max_num_steps, tol_pressure,
                            convert_density_lu_to_pressure_pu(rho(st.f)))
         IN [st |-> r.st, ret |-> r.ret, err |-> "none"]

\* initialize(max_num_steps, tol_pressure): final state, return value, exception;
\* with an empty range the loop variable of "return i" is unbound, the call
\* raises and returns no value (ret is then 0 and means nothing)
initialize_call(st, max_num_steps, tol_pressure) ==
    IF max_num_steps <= 0
    THEN [st |-> st, ret |-> 0, err |-> "UnboundLocalError"]
    ELSE LET r == init_loop(st, 0, max_num_steps, tol_pressure, [x \in Sites |-> 0])
         IN [st |-> r.st, ret |-> r.ret, err |-> "none"]

\* ------------------------------------------------------------- checkpoints
\* pickle.dump(self.f, fp): the shape and the row-major data of the array
pickle_dump(fld) ==
    [shape |-> <<Len(fld), Len(fld[1])>>,
     data  |-> [k \in 1..(Len(fld) * Len(fld[1])) |->
                   fld[((k - 1) \div Len(fld[1])) + 1][((k - 1) % Len(fld[1])) + 1]] \o <<>>]

\* pickle.load(fp)
pickle_load(bytes) ==
    [q \in 1..bytes.shape[1] |->
        [x \in 1..bytes.shape[2] |-> bytes.data[(q - 1) * bytes.shape[2] + x]] \o <<>>] \o <<>>

\* ------------------------------------------------------------ step: MLUPS
\* a quotient num / den of integers; den = 0 stands for no value
NoMlups == [num |-> 0, den |-> 0]

\* the tail of step: seconds = end - start, the grid points of rho(f), and
\* mlups = num_steps * num_grid_points / 1e6 / seconds, which raises when
\* seconds is 0
step_return(num_steps, fld, seconds) ==
    LET num_grid_points == numel(rho(fld))
    IN IF seconds = 0
       THEN [err |-> "ZeroDivisionError", mlups |-> NoMlups]
       ELSE [err |-> "none",
             mlups |-> [num |-> num_steps * num_grid_points, den |-> Mega * seconds]]

\* ---------------------------------------------------------------- actions
NoFault == [j |-> 0, phase |-> "none", k |-> 0]

Last(op, n, tol, path, ret) ==
    [op |-> op, n |-> n, tol |-> tol, path |-> path, ret |-> ret,
     p_shape |-> <<>>, u_shape |-> <<>>,
     seconds |-> 0, mlups |-> NoMlups, fault |-> NoFault,
     reporter_out |-> reporter_out,
     bound |-> bound, i |-> i, f |-> f, reporters |-> reporters,
     no_collision_mask |-> no_collision_mask, files |-> files]

NewRun(ci, cf, cout) ==
    [i |-> ci, f |-> cf, out |-> cout, n |-> 0, calls |-> 0, trace |-> <<>>]

NoOut == [r \in ReporterIds |-> <<>>]

Init ==
    /\ bound = FALSE
    /\ flow = NoFlow
    /\ i = 0
    /\ f = NoField
    /\ reporters = <<>>
    /\ no_collision_mask = <<>>
    /\ files = [path \in Paths |-> NoFile]
    /\ reporter_out = NoOut
    /\ err = "none"
    /\ trace = <<>>
    /\ last = [op |-> "none", n |-> 0, tol |-> 0, path |-> "", ret |-> 0,
               p_shape |-> <<>>, u_shape |-> <<>>,
               seconds |-> 0, mlups |-> NoMlups, fault |-> NoFault,
               reporter_out |-> NoOut,
               bound |-> FALSE, i |-> 0, f |-> NoField, reporters |-> <<>>,
               no_collision_mask |-> <<>>, files |-> [path \in Paths |-> NoFile]]
    /\ run = NewRun(0, NoField, NoOut)
    /\ requested = 0
    /\ appended_at = [r \in ReporterIds |-> -1]
    /\ ctor_boundaries = <<>>
    /\ saved = [path \in Paths |-> [f |-> NoField, i |-> 0]]
    /\ ncalls = 0

\* simulation = Simulation(flow, lattice, collision, streaming)
Simulation(fl) ==
    /\ bound => fl.p = flow.p /\ fl.u = flow.u /\ fl.boundaries = flow.boundaries
    /\ ncalls' = IF bound THEN ncalls + 1 ELSE ncalls
    /\ last' = [Last("Simulation", 0, 0, "", 0) EXCEPT !.p_shape = fl.p_shape,
                                                        !.u_shape = fl.u_shape]
    /\ err' = shape_check(fl)
    /\ UNCHANGED <<files, saved>>
    /\ IF shape_check(fl) # "none"
       THEN UNCHANGED <<bound, flow, i, f, reporters, no_collision_mask,
                        reporter_out, trace, run, requested, appended_at,
                        ctor_boundaries>>
       ELSE /\ bound' = TRUE
            /\ flow' = fl
            /\ i' = 0
            /\ f' = initial_field(fl)
            /\ reporters' = <<>>
            /\ no_collision_mask' = build_mask(fl.boundaries, NoMask)
            /\ reporter_out' = NoOut
            /\ trace' = <<>>
            /\ run' = NewRun(0, initial_field(fl), NoOut)
            /\ requested' = 0
            /\ appended_at' = [r \in ReporterIds |-> -1]
            /\ ctor_boundaries' = fl.boundaries

\* simulation.step(num_steps), the timer reporting seconds between start and end
step(num_steps) ==
    /\ bound
    /\ i + num_steps <= MaxI
    /\ LET st == step_loop(St(i, f, reporter_out, <<>>), num_steps,
                           no_collision_mask, flow.boundaries, reporters)
       IN /\ i' = st.i
          /\ f' = st.f
          /\ reporter_out' = st.out
          /\ trace' = st.trace
          /\ run' = [run EXCEPT !.n = @ + num_steps, !.calls = @ + 1,
                                !.trace = @ \o st.trace]
          /\ \E seconds \in Elapsed :
                LET r == step_return(num_steps, st.f, seconds)
                IN /\ err' = r.err
                   /\ last' = [Last("step", num_steps, 0, "", 0)
                                   EXCEPT !.seconds = seconds, !.mlups = r.mlups]
    /\ requested' = requested + num_steps
    /\ ncalls' = ncalls + 1
    /\ UNCHANGED <<bound, flow, reporters, no_collision_mask, files,
                   appended_at, ctor_boundaries, saved>>

\* simulation.step(num_steps) when a collaborator raises in iteration j
Phases == {"stream", "collide", "boundary", "report"}
step_raises(num_steps, j, phase, k) ==
    /\ bound
    /\ i + num_steps <= MaxI
    /\ j \in 1..num_steps
    /\ k = (IF phase \in {"stream", "collide"} THEN 0 ELSE k)
    /\ phase = "boundary" => k \in 1..Len(flow.boundaries)
    /\ phase = "report" => k \in 1..Len(reporters)
    /\ LET st == step_partial(
                    step_loop(St(i, f, reporter_out, <<>>), j - 1,
                              no_collision_mask, flow.boundaries, reporters),
                    no_collision_mask, flow.boundaries, reporters, phase, k)
       IN /\ i' = st.i
          /\ f' = st.f
          /\ reporter_out' = st.out
          /\ trace' = st.trace
          /\ run' = NewRun(st.i, st.f, st.out)
    /\ requested' = requested + j
    /\ err' = "CollaboratorError"
    /\ last' = [Last("step_raises", num_steps, 0, "", 0)
                    EXCEPT !.fault = [j |-> j, phase |-> phase, k |-> k]]
    /\ ncalls' = ncalls + 1
    /\ UNCHANGED <<bound, flow, reporters, no_collision_mask, files,
                   appended_at, ctor_boundaries, saved>>

\* simulation.initialize(max_num_steps, tol_pressure)
initialize(max_num_steps, tol_pressure) ==
    /\ bound
    /\ LET r == initialize_call(St(i, f, reporter_out, <<>>), max_num_steps, tol_pressure)
       IN /\ i' = r.st.i
          /\ f' = r.st.f
          /\ reporter_out' = r.st.out
          /\ trace' = r.st.trace
          /\ err' = r.err
          /\ last' = Last("initialize", max_num_steps, tol_pressure, "", r.ret)
          /\ run' = NewRun(r.st.i, r.st.f, r.st.out)
    /\ ncalls' = ncalls + 1
    /\ UNCHANGED <<bound, flow, reporters, no_collision_mask, files, requested,
                   appended_at, ctor_boundaries, saved>>

\* simulation.save_checkpoint(filename)
save_checkpoint(filename) ==
    /\ bound
    /\ files' = [files EXCEPT ![filename] = pickle_dump(f)]
    /\ saved' = [saved EXCEPT ![filename] = [f |-> f, i |-> i]]
    /\ err' = "none"
    /\ trace' = <<>>
    /\ last' = Last("save_checkpoint", 0, 0, filename, 0)
    /\ run' = NewRun(i, f, reporter_out)
    /\ ncalls' = ncalls + 1
    /\ UNCHANGED <<bound, flow, i, f, reporters, no_collision_mask, reporter_out,
                   requested, appended_at, ctor_boundaries>>

\* faulty variant of load_checkpoint: the loaded array is not assigned to self.f
load_checkpoint_keeps_field(filename) ==
    /\ bound
    /\ IF files[filename] = NoFile
       THEN /\ err' = "FileNotFoundError"
            /\ f' = f
       ELSE /\ err' = "none"
            /\ f' = f
    /\ i' = i
    /\ trace' = <<>>
    /\ last' = Last("load_checkpoint", 0, 0, filename, 0)
    /\ run' = NewRun(i', f', reporter_out)
    /\ ncalls' = ncalls + 1
    /\ UNCHANGED <<bound, flow, reporters, no_collision_mask, files, reporter_out,
                   requested, appended_at, ctor_boundaries, saved>>

\* faulty variant of load_checkpoint: the counter of the saving engine is restored too
load_checkpoint_restores_counter(filename) ==
    /\ bound
    /\ IF files[filename] = NoFile
       THEN /\ err' = "FileNotFoundError"
            /\ f' = f
       ELSE /\ err' = "none"
            /\ f' = pickle_load(files[filename])
    /\ i' = IF files[filename] = NoFile THEN i ELSE saved[filename].i
    /\ trace' = <<>>
    /\ last' = Last("load_checkpoint", 0, 0, filename, 0)
    /\ run' = NewRun(i', f', reporter_out)
    /\ ncalls' = ncalls + 1
    /\ UNCHANGED <<bound, flow, reporters, no_collision_mask, files, reporter_out,
                   requested, appended_at, ctor_boundaries, saved>>

\* simulation.load_checkpoint(filename)
load_checkpoint(filename) ==
    /\ bound
    /\ IF files[filename] = NoFile
       THEN /\ err' = "FileNotFoundError"
            /\ f' = f
       ELSE /\ err' = "none"
            /\ f' = pickle_load(files[filename])
    /\ trace' = <<>>
    /\ last' = Last("load_checkpoint", 0, 0, filename, 0)
    /\ run' = NewRun(i, f', reporter_out)
    /\ ncalls' = ncalls + 1
    /\ UNCHANGED <<bound, flow, i, reporters, no_collision_mask, files, reporter_out,
                   requested, appended_at, ctor_boundaries, saved>>

\* simulation.reporters.append(reporter), with a reporter not yet in the list
reporters_append(r) ==
    /\ bound
    /\ \A k \in 1..Len(reporters) : reporters[k] # r
    /\ reporters' = Append(reporters, r)
    /\ appended_at' = [appended_at EXCEPT ![r] = i]
    /\ err' = "none"
    /\ trace' = <<>>
    /\ last' = Last("reporters_append", 0, 0, "", 0)
    /\ run' = NewRun(i, f, reporter_out)
    /\ ncalls' = ncalls + 1
    /\ UNCHANGED <<bound, flow, i, f, no_collision_mask, files, reporter_out,
                   requested, ctor_boundaries, saved>>

\* the caller assigns flow.boundaries[k].mask after construction
NewMasks == {MaskOf({2}), MaskOf({1, 3})}
set_boundary_mask(k, m) ==
    /\ bound
    /\ k \in 1..Len(flow.boundaries)
    /\ flow.boundaries[k].mask # m
    /\ flow' = [flow EXCEPT !.boundaries[k].mask = m]
    /\ err' = "none"
    /\ trace' = <<>>
    /\ last' = Last("set_boundary_mask", k, 0, "", 0)
    /\ run' = NewRun(i, f, reporter_out)
    /\ ncalls' = ncalls + 1
    /\ UNCHANGED <<bound, i, f, reporters, no_collision_mask, files, reporter_out,
                   requested, appended_at, ctor_boundaries, saved>>

Next ==
    /\ ncalls < MaxCalls
    /\ \/ \E fl \in FlowSet : Simulation(fl)
       \/ \E num_steps \in 0..MaxI : step(num_steps)
       \/ \E max_num_steps \in 0..MaxInitSteps, tol_pressure \in Tols :
             initialize(max_num_steps, tol_pressure)
       \/ \E filename \in Paths : save_checkpoint(filename)
       \/ \E filename \in Paths : load_checkpoint(filename)
       \/ \E r \in ReporterIds : reporters_append(r)
       \/ \E k \in 1..2, m \in NewMasks : set_boundary_mask(k, m)

Spec == Init /\ [][Next]_vars

\* a caller that constructs, appends reporters, steps, saves and loads
NextDeep ==
    /\ ncalls < MaxCalls + 2
    /\ \/ \E fl \in FlowSet : Simulation(fl)
       \/ \E num_steps \in 0..MaxI : step(num_steps)
       \/ \E r \in ReporterIds : reporters_append(r)
       \/ \E filename \in Paths : save_checkpoint(filename)
       \/ \E filename \in Paths : load_checkpoint(filename)

SpecDeep == Init /\ [][NextDeep]_vars

\* a caller whose streaming, collision, boundaries or reporters may raise; the
\* callers of cli.py catch nothing, so the raise is the end of the run
NextFault ==
    /\ ncalls < MaxCalls + 1
    /\ last.op # "step_raises"
    /\ \/ \E fl \in FlowSet : Simulation(fl)
       \/ \E num_steps \in 0..MaxI : step(num_steps)
       \/ \E r \in ReporterIds : reporters_append(r)
       \/ \E num_steps \in 1..MaxI, j \in 1..MaxI, phase \in Phases, k \in 0..2 :
             step_raises(num_steps, j, phase, k)

SpecFault == Init /\ [][NextFault]_vars

\* ------------------------------------------------------------------ claims
\* The calls of one iteration of step, as recorded in trace: the increment,
\* streaming, collision, the select, one call per boundary, one per reporter.
NB == Len(flow.boundaries)
NR == Len(reporters)
BlockLen == 4 + NB + NR
AfterStep == bound /\ last.op = "step"
Blocks == 0..(last.n - 1)
At(m, k) == trace[m * BlockLen + k]
CountKind(kind) == Cardinality({k \in 1..Len(trace) : trace[k].kind = kind})

\* C1: the step counter is 0 after construction, every executed iteration of
\* step starts by incrementing it by exactly 1 before streaming, no operation
\* decreases it, so it equals the sum of the num_steps of the step calls made
\* on the engine and the first executed iteration carries index 1.
C1_Counter ==
    /\ (last.op = "Simulation" /\ err = "none") => i = 0
    /\ bound => i = requested
    /\ (bound /\ last.op \in {"step", "initialize", "save_checkpoint", "load_checkpoint"})
          => i >= last.i
    /\ AfterStep =>
          /\ i = last.i + last.n
          /\ CountKind("incr") = last.n
          /\ CountKind("stream") = last.n
          /\ \A m \in Blocks :
                /\ At(m, 1).kind = "incr"
                /\ At(m, 1).i1 = last.i + m + 1
                /\ At(m, 2).kind = "stream"
                /\ At(m, 2).i1 = At(m, 1).i1
                /\ \A k \in 2..BlockLen : At(m, k).i1 = At(m, 1).i1
          /\ (last.i = 0 /\ last.n >= 1) => \A k \in 1..BlockLen : trace[k].i1 = 1

C1_Witness ==
    /\ AfterStep
    /\ run.calls >= 2
    /\ last.i >= 1
    /\ last.n >= 1
    /\ i = requested
    /\ trace[1].kind = "incr"

\* C2: in every executed iteration of step each reporter of the reporters
\* list is called exactly once, in list order, with (i, i, f) where i is the
\* counter of the iteration and f the field after the last boundary of that
\* iteration; a reporter has seen exactly the consecutive indices from the
\* one after the counter at which it was appended up to the current counter.
C2_Reporters ==
    /\ AfterStep =>
          /\ Len(trace) = last.n * BlockLen
          /\ CountKind("report") = last.n * NR
          /\ \A m \in Blocks : \A j \in 1..NR :
                /\ At(m, 4 + NB + j).kind = "report"
                /\ At(m, 4 + NB + j).k = j
                /\ At(m, 4 + NB + j).i1 = last.i + m + 1
                /\ At(m, 4 + NB + j).i2 = last.i + m + 1
                /\ At(m, 4 + NB + j).fin = At(m, 4 + NB).fout
                /\ At(m, 4 + NB).kind = (IF NB = 0 THEN "where" ELSE "boundary")
    /\ bound => \A r \in ReporterIds :
          IF \E k \in 1..NR : reporters[k] = r
          THEN /\ appended_at[r] >= 0
               /\ Len(reporter_out[r]) = i - appended_at[r]
               /\ \A k \in 1..Len(reporter_out[r]) :
                     reporter_out[r][k] = <<appended_at[r] + k, appended_at[r] + k>>
          ELSE reporter_out[r] = <<>>

C2_Witness ==
    /\ AfterStep
    /\ NR = 2
    /\ last.n >= 1
    /\ appended_at[reporters[1]] = 0
    /\ appended_at[reporters[2]] >= 1
    /\ reporter_out[reporters[1]][1] = <<1, 1>>
    /\ reporter_out[reporters[2]][1] = <<appended_at[reporters[2]] + 1, appended_at[reporters[2]] + 1>>

\* C3: in every iteration of step every boundary of flow.boundaries is
\* applied exactly once, in list order, after the select and before the
\* reporters, each to the output of the call before it, and the output of
\* the last one is the field of the engine.
C3_Boundaries ==
    AfterStep =>
       /\ Len(trace) = last.n * BlockLen
       /\ CountKind("boundary") = last.n * NB
       /\ \A m \in Blocks :
             /\ At(m, 3).kind = "collide"
             /\ At(m, 4).kind = "where"
             /\ \A j \in 1..NB :
                   /\ At(m, 4 + j).kind = "boundary"
                   /\ At(m, 4 + j).k = j
                   /\ At(m, 4 + j).fin = At(m, 4 + j - 1).fout
                   /\ At(m, 4 + j).fout = boundary_call(flow.boundaries[j], At(m, 4 + j).fin)
             /\ \A j \in 1..NR : At(m, 4 + NB + j).kind = "report"
       /\ last.n >= 1 => f = At(last.n - 1, 4 + NB).fout

C3_Witness ==
    /\ AfterStep
    /\ last.n >= 2
    /\ NB = 2
    /\ At(1, 5).fout # At(1, 5).fin
    /\ At(1, 6).fout # At(1, 6).fin
    /\ boundary_call(flow.boundaries[1], boundary_call(flow.boundaries[2], At(1, 4).fout)) # f

\* site x keeps its values through every boundary call of iteration m
Untouched(m, x) ==
    \A j \in 1..NB : \A q \in Dirs : At(m, 4 + j).fout[q][x] = At(m, 4 + j).fin[q][x]

\* C4 as stated: at every masked site the field after a step equals the
\* post-streaming field of that step, whatever boundaries the flow has.
C4_AsStated ==
    (AfterStep /\ last.n >= 1) =>
       \A x \in Sites : no_collision_mask[x] =>
          \A q \in Dirs : f[q][x] = At(last.n - 1, 2).fout[q][x]

\* C4: at every masked site the field that the select of an iteration hands
\* to the boundaries equals the post-streaming field and differs from the
\* post-collision field; the field after the iteration equals the
\* post-streaming field at every masked site that no boundary call changes.
C4_MaskedSites ==
    AfterStep =>
       \A m \in Blocks : \A x \in Sites : no_collision_mask[x] =>
          /\ At(m, 3).fin = At(m, 2).fout
          /\ \A q \in Dirs :
                /\ At(m, 4).fout[q][x] = At(m, 2).fout[q][x]
                /\ At(m, 4).fout[q][x] # At(m, 3).fout[q][x]
          /\ Untouched(m, x) =>
                \A q \in Dirs :
                   /\ At(m, 4 + NB).fout[q][x] = At(m, 2).fout[q][x]
                   /\ m = last.n - 1 => f[q][x] = At(m, 2).fout[q][x]

C4_Witness ==
    /\ AfterStep
    /\ last.n >= 1
    /\ NB >= 1
    /\ \E x \in Sites :
          /\ no_collision_mask[x]
          /\ Untouched(last.n - 1, x)
          /\ flow.boundaries[1].mask[x]
          /\ \A q \in Dirs : f[q][x] = At(last.n - 1, 2).fout[q][x]
    /\ \E x \in Sites : no_collision_mask[x] /\ ~Untouched(last.n - 1, x)

\* the site-wise OR of the masks of the bounce-back boundaries of a list
MaskOr(bnds) ==
    [x \in Sites |-> \E k \in 1..Len(bnds) :
                        bnds[k].cls = "BounceBackBoundary" /\ bnds[k].mask[x]]

\* C5: the no-collision mask is the site-wise OR of the masks the bounce-back
\* boundaries of flow.boundaries had at construction, has the shape of the
\* grid, and no later call changes it, whatever happens to the boundaries.
C5_Mask ==
    /\ bound =>
          /\ \A x \in Sites : no_collision_mask[x] = MaskOr(ctor_boundaries)[x]
          /\ <<Len(no_collision_mask)>> = grid_shape
    /\ (bound /\ last.bound /\ last.op # "Simulation") =>
          no_collision_mask = last.no_collision_mask

C5_Witness ==
    /\ AfterStep
    /\ last.n >= 1
    /\ flow.boundaries # ctor_boundaries
    /\ \E x \in Sites : no_collision_mask[x]
    /\ \E x \in Sites : MaskOr(flow.boundaries)[x] # no_collision_mask[x]
    /\ \E k \in 1..NB, x \in Sites :
          /\ flow.boundaries[k].cls # "BounceBackBoundary"
          /\ flow.boundaries[k].mask[x]
          /\ ~no_collision_mask[x]

\* C6: a run of consecutive step calls leaves the field, the counter, the
\* reporters' records and the sequence of calls made (streaming, collision,
\* boundaries, reporters) that one step call with the sum of their num_steps
\* yields from the state the run started in.
C6_Associative ==
    (bound /\ run.calls >= 1) =>
       LET whole == step_loop(St(run.i, run.f, run.out, <<>>), run.n,
                              no_collision_mask, flow.boundaries, reporters)
       IN /\ whole.f = f
          /\ whole.i = i
          /\ whole.out = reporter_out
          /\ whole.trace = run.trace

C6_Witness ==
    /\ AfterStep
    /\ run.calls >= 2
    /\ last.n >= 1
    /\ last.i > run.i
    /\ NR >= 1
    /\ NB >= 1
    /\ reporter_out[reporters[1]] # <<>>
    /\ f # last.f

\* C7: after a successful load_checkpoint the field of the loading engine
\* equals the field the saving engine had when it saved to that path, and
\* save_checkpoint changes nothing of the engine.
C7_RoundTrip ==
    /\ (bound /\ last.op = "load_checkpoint" /\ err = "none") =>
          f = saved[last.path].f
    /\ (bound /\ last.op = "save_checkpoint") =>
          /\ f = last.f
          /\ i = last.i
          /\ reporters = last.reporters
          /\ no_collision_mask = last.no_collision_mask
          /\ saved[last.path].f = f

C7_Witness ==
    /\ bound
    /\ last.op = "load_checkpoint"
    /\ err = "none"
    /\ i = 0
    /\ saved[last.path].i >= 1
    /\ f # last.f
    /\ f = saved[last.path].f

\* C8: load_checkpoint replaces the field by the array in the file, which
\* holds the Q * NumSites values of a field and nothing else, and leaves the
\* counter, the mask and the reporters list as they were, so the counter
\* still is the number of steps taken on the engine.
C8_FieldOnly ==
    (bound /\ last.op = "load_checkpoint") =>
       /\ i = last.i
       /\ i = requested
       /\ no_collision_mask = last.no_collision_mask
       /\ reporters = last.reporters
       /\ files = last.files
       /\ err = "none" =>
             /\ files[last.path].shape = <<Q, NumSites>>
             /\ Len(files[last.path].data) = Q * NumSites
             /\ \A q \in Dirs : \A x \in Sites :
                   f[q][x] = files[last.path].data[(q - 1) * NumSites + x]
       /\ err # "none" => f = last.f

C8_Witness ==
    /\ bound
    /\ last.op = "load_checkpoint"
    /\ err = "none"
    /\ saved[last.path].i >= 1
    /\ i > saved[last.path].i
    /\ f # last.f
    /\ f = saved[last.path].f
    /\ i = requested

\* the pressure after iteration j of the last initialize call (0 before it)
InitP(j) ==
    IF j < 0 THEN vector([x \in Sites |-> 0])
    ELSE convert_density_lu_to_pressure_pu(rho(trace[2 * (j + 1)].fout))
Crit(j) == max_abs_diff(InitP(j), InitP(j - 1)) < last.tol

\* C9: initialize with max_num_steps >= 1 runs k + 1 <= max_num_steps
\* iterations and returns k, where the convergence criterion holds at
\* iteration k or k = max_num_steps - 1, and holds at no iteration before k.
C9_Initialize ==
    (bound /\ last.op = "initialize" /\ last.n >= 1) =>
       /\ err = "none"
       /\ last.ret \in 0..(last.n - 1)
       /\ Len(trace) = 2 * (last.ret + 1)
       /\ \A j \in 0..last.ret :
             /\ trace[2 * j + 1].kind = "init_stream"
             /\ trace[2 * j + 1].fin = (IF j = 0 THEN last.f ELSE trace[2 * j].fout)
             /\ trace[2 * j + 2].kind = "init_collide"
             /\ trace[2 * j + 2].fin = trace[2 * j + 1].fout
       /\ f = trace[2 * (last.ret + 1)].fout
       /\ Crit(last.ret) \/ last.ret = last.n - 1
       /\ \A j \in 0..(last.ret - 1) : ~Crit(j)

C9_Witness ==
    /\ bound
    /\ last.op = "initialize"
    /\ last.ret >= 1
    /\ last.ret < last.n - 1
    /\ Crit(last.ret)

C9_WitnessFirst ==
    bound /\ last.op = "initialize" /\ last.n >= 2 /\ last.ret = 0 /\ Crit(0)

C9_WitnessNever ==
    bound /\ last.op = "initialize" /\ last.n >= 2 /\ last.ret = last.n - 1 /\ ~Crit(last.ret)

\* C10 as stated: constructing with an initial pressure or velocity field of
\* the wrong shape fails with the engine's LettuceException and leaves the
\* caller without a new engine.
C10_AsStated ==
    (last.op = "Simulation"
        /\ (last.p_shape # <<1>> \o grid_shape \/ last.u_shape # <<D>> \o grid_shape)) =>
       /\ err = "LettuceException"
       /\ bound = last.bound
       /\ f = last.f
       /\ reporters = last.reporters
       /\ no_collision_mask = last.no_collision_mask

\* C11: step(0) changes nothing: field, counter, mask, reporters list and
\* the reporters' records are as before the call and no streaming, collision,
\* boundary or reporter is called.
C11_StepZero ==
    (AfterStep /\ last.n = 0) =>
       /\ f = last.f
       /\ i = last.i
       /\ no_collision_mask = last.no_collision_mask
       /\ reporters = last.reporters
       /\ reporter_out = last.reporter_out
       /\ files = last.files
       /\ trace = <<>>

C11_Witness ==
    /\ AfterStep
    /\ last.n = 0
    /\ i >= 1
    /\ NR >= 1
    /\ NB >= 1
    /\ streaming(f) # f

\* C12 as stated: for every num_steps >= 0 and every elapsed time the timer
\* reports, zero included, step returns a value without dividing by zero,
\* and for num_steps >= 1 that value is the positive quotient
\* num_steps * grid points / 1e6 / seconds.
C12_AsStated ==
    AfterStep =>
       /\ err = "none"
       /\ last.mlups.den # 0
       /\ last.n >= 1 =>
             /\ last.mlups.num = last.n * NumSites
             /\ last.mlups.den = Mega * last.seconds
             /\ last.mlups.num > 0
             /\ last.mlups.den > 0

\* C13: in every iteration of step collision is called exactly once, on the
\* field streaming returned and not on the field before streaming, and the
\* field handed to the first boundary is the select of the two: the
\* post-streaming value at every masked site, in every direction, and the
\* post-collision value at every other site.
C13_Select ==
    AfterStep =>
       /\ CountKind("collide") = last.n
       /\ CountKind("where") = last.n
       /\ \A m \in Blocks :
             /\ At(m, 2).kind = "stream"
             /\ At(m, 2).fin = (IF m = 0 THEN last.f ELSE At(m - 1, 4 + NB).fout)
             /\ At(m, 2).fout = streaming(At(m, 2).fin)
             /\ At(m, 3).kind = "collide"
             /\ At(m, 3).fin = At(m, 2).fout
             /\ At(m, 3).fout = collision(At(m, 2).fout)
             /\ At(m, 4).kind = "where"
             /\ \A x \in Sites : \A q \in Dirs :
                   At(m, 4).fout[q][x] =
                      IF no_collision_mask[x] THEN At(m, 2).fout[q][x]
                                              ELSE At(m, 3).fout[q][x]
             /\ NB >= 1 => At(m, 5).kind = "boundary" /\ At(m, 5).fin = At(m, 4).fout

C13_Witness ==
    /\ AfterStep
    /\ last.n >= 2
    /\ NB >= 1
    /\ \E x \in Sites : no_collision_mask[x]
    /\ \E x \in Sites : ~no_collision_mask[x]
    /\ At(1, 2).fout # At(1, 2).fin
    /\ collision(At(1, 2).fin) # At(1, 3).fout
    /\ At(1, 4).fout # At(1, 2).fout
    /\ At(1, 4).fout # At(1, 3).fout

AfterRaise == bound /\ last.op = "step_raises"
\* the calls of the raising iteration made before the raising one
PartialLen ==
    CASE last.fault.phase = "stream"   -> 1
      [] last.fault.phase = "collide"  -> 2
      [] last.fault.phase = "boundary" -> 4 + last.fault.k - 1
      [] last.fault.phase = "report"   -> 4 + NB + last.fault.k - 1
Assignments == {n \in 1..Len(trace) : trace[n].kind \in {"stream", "where", "boundary"}}
LastOf(S) == CHOOSE n \in S : \A o \in S : o <= n

\* C14: when a collaborator raises in iteration j of step(n) the error reaches
\* the caller as raised; iterations 1..j-1 have run in full, the raising call
\* is the last call made, the counter is the start value plus j and the field
\* is the last value assigned before the raising call, with no rollback.
C14_NoRollback ==
    AfterRaise =>
       /\ err = "CollaboratorError"
       /\ i = last.i + last.fault.j
       /\ CountKind("incr") = last.fault.j
       /\ CountKind("raise") = 1
       /\ Len(trace) = (last.fault.j - 1) * BlockLen + PartialLen + 1
       /\ trace[Len(trace)].kind = "raise"
       /\ \A m \in 0..(last.fault.j - 2) :
             /\ At(m, 1).kind = "incr"
             /\ At(m, BlockLen).kind \in {"where", "boundary", "report"}
             /\ At(m, BlockLen).i1 = last.i + m + 1
       /\ f = (IF Assignments = {} THEN last.f ELSE trace[LastOf(Assignments)].fout)
       /\ last.fault.phase = "collide" =>
             f = streaming(trace[Len(trace) - 1].fin)
       /\ \A n \in 1..NR :
             Len(reporter_out[reporters[n]]) =
                Len(last.reporter_out[reporters[n]]) + (last.fault.j - 1)
                + (IF last.fault.phase = "report" /\ n < last.fault.k THEN 1 ELSE 0)

C14_Witness ==
    /\ AfterRaise
    /\ last.fault.j >= 2
    /\ last.fault.j < last.n
    /\ last.fault.phase = "boundary"
    /\ last.fault.k = 2
    /\ f # last.f
    /\ f # At(last.fault.j - 1, 1).fin
    /\ f = At(last.fault.j - 1, 5).fout
    /\ At(last.fault.j - 1, 5).fout # At(last.fault.j - 1, 5).fin

C14_WitnessReporter ==
    /\ AfterRaise
    /\ last.fault.phase = "report"
    /\ last.fault.k = 2
    /\ NB >= 1
    /\ Len(reporter_out[reporters[1]]) = Len(reporter_out[reporters[2]]) + 1

C14_WitnessCollide ==
    AfterRaise /\ last.fault.phase = "collide" /\ last.fault.j >= 2 /\ f # last.f

C14_WitnessStream ==
    AfterRaise /\ last.fault.phase = "stream" /\ last.fault.j >= 2 /\ f # last.f

AfterInitialize == bound /\ last.op = "initialize"

\* C15: initialize with max_num_steps = 0 runs no iteration: nothing is
\* streamed or collided and the field is as before the call; the call either
\* raises or returns -1, it never returns another count.
C15_ZeroSteps ==
    (AfterInitialize /\ last.n = 0) =>
       /\ trace = <<>>
       /\ CountKind("init_stream") = 0
       /\ CountKind("init_collide") = 0
       /\ f = last.f
       /\ err # "none" \/ last.ret = -1

C15_Witness ==
    /\ AfterInitialize
    /\ last.n = 0
    /\ i >= 1
    /\ f # initial_field(flow)
    /\ err = "UnboundLocalError"

\* the field after n rounds of streaming followed by the initialization collision
RECURSIVE Rounds(_, _)
Rounds(fld, n) == IF n <= 0 THEN fld ELSE Rounds(BGKInitialization(streaming(fld)), n - 1)
Zeros == [x \in Sites |-> 0]

\* C16: when initialize(max_num_steps >= 1) returns k, the field has been
\* streamed and then passed through the initialization collision exactly k + 1
\* times, k + 1 = max_num_steps when the criterion was never met, and the
\* first iteration compares its pressure against the constant 0.
C16_ReturnsPosition ==
    (AfterInitialize /\ last.n >= 1) =>
       /\ err = "none"
       /\ CountKind("init_stream") = last.ret + 1
       /\ CountKind("init_collide") = last.ret + 1
       /\ \A n \in 1..Len(trace) :
             trace[n].kind = (IF n % 2 = 1 THEN "init_stream" ELSE "init_collide")
       /\ f = Rounds(last.f, last.ret + 1)
       /\ (\A j \in 0..last.ret : ~Crit(j)) => last.ret + 1 = last.n
       /\ last.n >= 2 =>
             (last.ret = 0 <=>
                max_abs_diff(convert_density_lu_to_pressure_pu(rho(Rounds(last.f, 1))),
                             Zeros) < last.tol)

C16_Witness ==
    /\ AfterInitialize
    /\ last.n >= 2
    /\ last.ret = 0
    /\ err = "none"
    /\ f # last.f
    /\ max_abs_diff(convert_density_lu_to_pressure_pu(rho(f)), Zeros) < last.tol
    /\ max_abs_diff(convert_density_lu_to_pressure_pu(rho(f)),
                    convert_density_lu_to_pressure_pu(rho(last.f))) >= last.tol

C16_WitnessLater ==
    /\ AfterInitialize
    /\ last.ret >= 1
    /\ last.ret + 1 < last.n
    /\ f = Rounds(last.f, last.ret + 1)
    /\ f # last.f

C16_WitnessNeverMet ==
    /\ AfterInitialize
    /\ last.n >= 2
    /\ last.ret + 1 = last.n
    /\ \A j \in 0..last.ret : ~Crit(j)

\* C17: initialize changes only the field: the counter, the no-collision mask,
\* the reporters list, the reporters' records and the files are as before the
\* call, the only calls are streaming and the initialization collision, and
\* that collision is applied at every site, masked or not.
C17_FieldOnly ==
    AfterInitialize =>
       /\ i = last.i
       /\ no_collision_mask = last.no_collision_mask
       /\ reporters = last.reporters
       /\ reporter_out = last.reporter_out
       /\ files = last.files
       /\ \A n \in 1..Len(trace) :
             /\ trace[n].kind \in {"init_stream", "init_collide"}
             /\ trace[n].kind = "init_collide" =>
                   \A q \in Dirs, x \in Sites :
                      trace[n].fout[q][x] = BGKInitialization(trace[n].fin)[q][x]
       /\ CountKind("collide") + CountKind("where") + CountKind("incr") = 0
       /\ CountKind("boundary") + CountKind("report") = 0
       /\ f = (IF trace = <<>> THEN last.f ELSE trace[Len(trace)].fout)

C17_Witness ==
    /\ AfterInitialize
    /\ last.n >= 1
    /\ NB >= 1
    /\ NR >= 1
    /\ \E x \in Sites :
          /\ no_collision_mask[x]
          /\ \E q \in Dirs : trace[2].fout[q][x] # trace[2].fin[q][x]
    /\ f # last.f

C17_WitnessAfterStep ==
    AfterInitialize /\ last.n >= 1 /\ i >= 1 /\ f # last.f

====
